---- MODULE Spec2Model ----
(***************************************************************************)
(* Model of the STM32 GPIO port of hw/gpio/stm32_gpio.c.                   *)
(*                                                                         *)
(* A 32-bit register is the set of the positions of its set bits (a subset *)
(* of 0..31), so that &, |, ~ are set intersection, union and complement   *)
(* and no value exceeds the checker's integers.  Word(hi, lo) is the       *)
(* register whose upper and lower 16-bit halves are hi and lo.             *)
(***************************************************************************)
EXTENDS Integers, FiniteSets, Sequences

VARIABLES
    s,          \* the STM32GPIOState
    input_irq,  \* level of each "input-out" line, as last set by qemu_set_irq
    call,       \* the handler that ran last, its arguments and its return value
    emit        \* what that handler emitted: set_irq calls, pulses, diagnostics

vars == <<s, input_irq, call, emit>>

----------------------------------------------------------------------------
(* include/hw/gpio/stm32_gpio.h, include/hw/arm/stm32.h *)

STM32_GPIO_REG_MODER   == 0
STM32_GPIO_REG_OTYPER  == 4
STM32_GPIO_REG_OSPEEDR == 8
STM32_GPIO_REG_PUPDR   == 12
STM32_GPIO_REG_IDR     == 16
STM32_GPIO_REG_ODR     == 20
STM32_GPIO_REG_BSRR    == 24
STM32_GPIO_REG_LCKR    == 28
STM32_GPIO_REG_AFRL    == 32
STM32_GPIO_REG_AFRH    == 36
STM32_GPIO_REG_BRR     == 40

STM32_GPIO_NPINS == 16

STM32_GPIO_PORT_A == 0
STM32_GPIO_PORT_B == 1
STM32_GPIO_PORT_C == 2

STM32_GPIO_MODE_INPUT  == 0
STM32_GPIO_MODE_OUTPUT == 1
STM32_GPIO_MODE_AF     == 2
STM32_GPIO_MODE_ANALOG == 3

STM32_GPIO_PULL_NONE == 0
STM32_GPIO_PULL_UP   == 1
STM32_GPIO_PULL_DOWN == 2

STM32_F2 == 0
STM32_F4 == 1

----------------------------------------------------------------------------
(* 32-bit words and the bit helpers of qemu/bitops.h used by the device *)

Bits32 == 0..31

Pow2(k) == 2 ^ k

HalfBits(h) == {k \in 0..15 : (h \div Pow2(k)) % 2 = 1}

Word(hi, lo) == HalfBits(lo) \cup {k + 16 : k \in HalfBits(hi)}

(* extract32(value, start, length): bits start..start+length-1 as a number *)
RECURSIVE extract32(_, _, _)
extract32(value, start, length) ==
    IF length = 1 THEN (IF start \in value THEN 1 ELSE 0)
    ELSE (IF start \in value THEN 1 ELSE 0)
         + 2 * extract32(value, start + 1, length - 1)

(* deposit32(value, start, length, fieldval): value with those bits replaced *)
deposit32(value, start, length, fieldval) ==
    (value \ (start..(start + length - 1)))
    \cup {start + k : k \in {j \in 0..(length - 1) : (fieldval \div Pow2(j)) % 2 = 1}}

Bool(b) == IF b THEN 1 ELSE 0

----------------------------------------------------------------------------
(* Diagnostics written with qemu_log_mask(LOG_GUEST_ERROR, ...) *)

LogShort(i)         == <<"short circuited", i>>
LogDisabled         == <<"peripheral is disabled", 0>>
LogBadRead(offset)  == <<"bad read offset", offset>>
LogBadWrite(offset) == <<"bad write offset", offset>>

(* What a handler emits: `out`, the calls on the output lines in the order *)
(* made (qemu_set_irq on input-out line i with a level, qemu_irq_pulse on  *)
(* state-out), and `log`, the diagnostics.                                 *)
SetIrq(i, level) == <<"set_irq", i, level>>
Pulse            == <<"pulse", 0, 1>>

NoEmit == [out |-> <<>>, log |-> {}]

----------------------------------------------------------------------------
(* stm32_gpio_update_state.  The loop body for pin i reads bit i of idr,   *)
(* odr, in, in_mask and field i of moder and pupdr, and writes bit i of    *)
(* idr only, so the iterations are independent and the loop is the         *)
(* pin-wise application of the body.                                       *)

(* mutant: the loop visits all STM32_GPIO_NPINS pins *)
Pins_AllPins(st) == 0..(STM32_GPIO_NPINS - 1)

Pins(st) == 0..(st.ngpio - 1)

Mode(st, i) == extract32(st.moder, i * 2, 2)

Pupd(st, i) == extract32(st.pupdr, i * 2, 2)

(* mutant: the internal output drive is looked at before the external one *)
NewId_OutputFirst(st, i) ==
    IF Mode(st, i) = STM32_GPIO_MODE_OUTPUT THEN extract32(st.odr, i, 1)
    ELSE IF extract32(st.in_mask, i, 1) = 1 THEN extract32(st.in, i, 1)
    ELSE Bool(Pupd(st, i) = STM32_GPIO_PULL_UP)

(* lines 42-51: the level the pin takes *)
NewId(st, i) ==
    IF extract32(st.in_mask, i, 1) = 1 THEN extract32(st.in, i, 1)
    ELSE IF Mode(st, i) = STM32_GPIO_MODE_OUTPUT THEN extract32(st.odr, i, 1)
    ELSE Bool(Pupd(st, i) = STM32_GPIO_PULL_UP)

(* mutant: the diagnostic ignores the mode of the pin *)
ShortCircuited_AnyMode(st, i) == extract32(st.in_mask, i, 1) = 1

(* lines 37-40: pin both driven externally and internally *)
ShortCircuited(st, i) ==
    Mode(st, i) = STM32_GPIO_MODE_OUTPUT /\ extract32(st.in_mask, i, 1) = 1

(* mutant: the line is set whatever the mode of the pin *)
RaisesIrq_AnyMode(mode, new_id, prev_id) == new_id # prev_id

(* mutant: the line is set whenever an input pin is high *)
RaisesIrq_OnHigh(mode, new_id, prev_id) ==
    new_id = 1 /\ mode = STM32_GPIO_MODE_INPUT

(* lines 56-61: qemu_set_irq(s->input_irq[i], new_id) is called *)
RaisesIrq(mode, new_id, prev_id) ==
    new_id # prev_id /\ mode = STM32_GPIO_MODE_INPUT

(* the qemu_set_irq calls of one pass of the loop, which visits the pins   *)
(* in ascending order                                                      *)
IrqEvents(fired, high) ==
    LET nth(k) == CHOOSE i \in fired : Cardinality({j \in fired : j < i}) = k - 1
    IN  [k \in 1..Cardinality(fired) |-> SetIrq(nth(k), Bool(nth(k) \in high))]

(* mutant: the pulse is sent only when some notified pin changed *)
PulseEvents_OnlyOnChange(fired) == IF fired = {} THEN <<>> ELSE <<Pulse>>

(* lines 63-64: qemu_irq_pulse(s->state_irq), after the loop *)
PulseEvents(fired) == <<Pulse>>

stm32_gpio_update_state(st, lines) ==
    LET high  == {i \in Pins(st) : NewId(st, i) = 1}
        fired == {i \in Pins(st) :
                    RaisesIrq(Mode(st, i), Bool(i \in high), extract32(st.idr, i, 1))}
    IN  [s     |-> [st EXCEPT !.idr = (st.idr \ Pins(st)) \cup high],
         lines |-> IF fired = {} THEN lines
                   ELSE [i \in DOMAIN lines |->
                           IF i \in fired THEN Bool(i \in high) ELSE lines[i]],
         emit  |-> [out |-> IrqEvents(fired, high) \o PulseEvents(fired),
                    log |-> {LogShort(i) : i \in {j \in Pins(st) : ShortCircuited(st, j)}}]]

----------------------------------------------------------------------------
(* stm32_gpio_reset: the register defaults, then update_state *)

(* mutant: both mode bits of pins 13-15 are set *)
F4_PORT_A_MODER_Analog == Word(\hFC00, \h0000)

F4_PORT_A_MODER   == Word(\hA800, \h0000)
F4_PORT_A_PUPDR   == Word(\h6400, \h0000)
F4_PORT_B_MODER   == Word(\h0000, \h0280)
F4_PORT_B_OSPEEDR == Word(\h0000, \h00C0)
F4_PORT_B_PUPDR   == Word(\h0000, \h0100)

(* mutant: the reset disconnects the external drives as well *)
ResetRegs_ClearsDrive(st) ==
    LET z == [st EXCEPT !.moder = {}, !.otyper = {}, !.ospeedr = {},
                        !.pupdr = {}, !.odr = {}, !.lckr = {},
                        !.aflr = {}, !.afhr = {}, !.in_mask = {}]
    IN  IF st.family = STM32_F4 /\ st.port = STM32_GPIO_PORT_A
        THEN [z EXCEPT !.moder = F4_PORT_A_MODER,
                       !.pupdr = F4_PORT_A_PUPDR]
        ELSE IF st.family = STM32_F4 /\ st.port = STM32_GPIO_PORT_B
        THEN [z EXCEPT !.moder   = F4_PORT_B_MODER,
                       !.ospeedr = F4_PORT_B_OSPEEDR,
                       !.pupdr   = F4_PORT_B_PUPDR]
        ELSE z

(* mutant: the reset leaves LCKR as it is *)
ResetRegs_KeepsLckr(st) ==
    LET z == [st EXCEPT !.moder = {}, !.otyper = {}, !.ospeedr = {},
                        !.pupdr = {}, !.odr = {}, !.aflr = {}, !.afhr = {}]
    IN  IF st.family = STM32_F4 /\ st.port = STM32_GPIO_PORT_A
        THEN [z EXCEPT !.moder = F4_PORT_A_MODER,
                       !.pupdr = F4_PORT_A_PUPDR]
        ELSE IF st.family = STM32_F4 /\ st.port = STM32_GPIO_PORT_B
        THEN [z EXCEPT !.moder   = F4_PORT_B_MODER,
                       !.ospeedr = F4_PORT_B_OSPEEDR,
                       !.pupdr   = F4_PORT_B_PUPDR]
        ELSE z

ResetRegs(st) ==
    LET z == [st EXCEPT !.moder = {}, !.otyper = {}, !.ospeedr = {},
                        !.pupdr = {}, !.odr = {}, !.lckr = {},
                        !.aflr = {}, !.afhr = {}]
    IN  IF st.family = STM32_F4 /\ st.port = STM32_GPIO_PORT_A
        THEN [z EXCEPT !.moder = F4_PORT_A_MODER,
                       !.pupdr = F4_PORT_A_PUPDR]
        ELSE IF st.family = STM32_F4 /\ st.port = STM32_GPIO_PORT_B
        THEN [z EXCEPT !.moder   = F4_PORT_B_MODER,
                       !.ospeedr = F4_PORT_B_OSPEEDR,
                       !.pupdr   = F4_PORT_B_PUPDR]
        ELSE z

stm32_gpio_reset(st, lines) == stm32_gpio_update_state(ResetRegs(st), lines)

----------------------------------------------------------------------------
(* stm32_gpio_read: the value returned and the diagnostics *)

DefinedOffsets ==
    {STM32_GPIO_REG_MODER, STM32_GPIO_REG_OTYPER, STM32_GPIO_REG_OSPEEDR,
     STM32_GPIO_REG_PUPDR, STM32_GPIO_REG_IDR, STM32_GPIO_REG_ODR,
     STM32_GPIO_REG_BSRR, STM32_GPIO_REG_LCKR, STM32_GPIO_REG_AFRL,
     STM32_GPIO_REG_AFRH, STM32_GPIO_REG_BRR}

ReadReg(st, offset) ==
    CASE offset = STM32_GPIO_REG_MODER   -> st.moder
      [] offset = STM32_GPIO_REG_OTYPER  -> st.otyper
      [] offset = STM32_GPIO_REG_OSPEEDR -> st.ospeedr
      [] offset = STM32_GPIO_REG_PUPDR   -> st.pupdr
      [] offset = STM32_GPIO_REG_IDR     -> st.idr
      [] offset = STM32_GPIO_REG_ODR     -> st.odr
      [] offset = STM32_GPIO_REG_BSRR    -> {}
      [] offset = STM32_GPIO_REG_LCKR    -> st.lckr
      [] offset = STM32_GPIO_REG_AFRL    -> st.aflr
      [] offset = STM32_GPIO_REG_AFRH    -> st.afhr
      [] OTHER                           -> {}

(* the switch's BRR case on a family without BRR, and its default case *)
BadOffset(st, offset) ==
    \/ offset = STM32_GPIO_REG_BRR /\ st.family = STM32_F4
    \/ offset \notin DefinedOffsets

stm32_gpio_read(st, offset) ==
    IF ~st.enable THEN [r |-> {}, log |-> {LogDisabled}]
    ELSE [r   |-> ReadReg(st, offset),
          log |-> IF BadOffset(st, offset) THEN {LogBadRead(offset)} ELSE {}]

----------------------------------------------------------------------------
(* stm32_gpio_write: the gate on enable, the register switch, update_state *)

(* mutant: the reset mask is applied after the set mask *)
BsrrOdr_ResetLast(odr, value) ==
    (odr \cup (value \cap (0..15))) \ {k \in 0..15 : (k + 16) \in value}

(* s->odr &= ~((value >> 16) & 0xFFFF); s->odr |= value & 0xFFFF; *)
BsrrOdr(odr, value) ==
    (odr \ {k \in 0..15 : (k + 16) \in value}) \cup (value \cap (0..15))

(* mutant: the written value is not masked to the 16 pin bits *)
BrrOdr_Unmasked(odr, value) == odr \ value

(* s->odr &= ~(value & 0xFFFF); *)
BrrOdr(odr, value) == odr \ (value \cap (0..15))

(* mutant: an IDR write stores the value *)
IdrWrite_Stored(st, value) == [st EXCEPT !.idr = value \cap Bits32]

(* case STM32_GPIO_REG_IDR: break;  IDR is read-only *)
IdrWrite(st, value) == st

WriteRegs(st, offset, value) ==
    LET v32 == value \cap Bits32
    IN  CASE offset = STM32_GPIO_REG_MODER   -> [st EXCEPT !.moder = v32]
          [] offset = STM32_GPIO_REG_OTYPER  -> [st EXCEPT !.otyper = v32]
          [] offset = STM32_GPIO_REG_OSPEEDR -> [st EXCEPT !.ospeedr = v32]
          [] offset = STM32_GPIO_REG_PUPDR   -> [st EXCEPT !.pupdr = v32]
          [] offset = STM32_GPIO_REG_IDR     -> IdrWrite(st, value)
          [] offset = STM32_GPIO_REG_ODR     -> [st EXCEPT !.odr = v32]
          [] offset = STM32_GPIO_REG_BSRR    ->
                 [st EXCEPT !.odr = BsrrOdr(st.odr, value)]
          [] offset = STM32_GPIO_REG_LCKR    -> [st EXCEPT !.lckr = v32]
          [] offset = STM32_GPIO_REG_AFRL    -> [st EXCEPT !.aflr = v32]
          [] offset = STM32_GPIO_REG_AFRH    -> [st EXCEPT !.afhr = v32]
          [] offset = STM32_GPIO_REG_BRR /\ st.family # STM32_F4 ->
                 [st EXCEPT !.odr = BrrOdr(st.odr, value)]
          [] OTHER                           -> st

(* mutant: the write is not gated on enable *)
WriteAccepted_Always(st) == TRUE

(* if (!s->enable) { ...; return; } *)
WriteAccepted(st) == st.enable

(* mutant: the write returns without calling update_state *)
stm32_gpio_write_NoUpdate(st, lines, offset, value) ==
    IF ~WriteAccepted(st)
    THEN [s |-> st, lines |-> lines,
          emit |-> [NoEmit EXCEPT !.log = {LogDisabled}]]
    ELSE [s |-> WriteRegs(st, offset, value), lines |-> lines, emit |-> NoEmit]

stm32_gpio_write(st, lines, offset, value) ==
    IF ~WriteAccepted(st)
    THEN [s |-> st, lines |-> lines,
          emit |-> [NoEmit EXCEPT !.log = {LogDisabled}]]
    ELSE LET u == stm32_gpio_update_state(WriteRegs(st, offset, value), lines)
         IN  [u EXCEPT !.emit.log =
                  (IF BadOffset(st, offset) THEN {LogBadWrite(offset)} ELSE {})
                  \cup u.emit.log]

----------------------------------------------------------------------------
(* The device in its environment.  s is the STM32GPIOState; the output     *)
(* lines and what the last handler emitted are observed beside it.         *)

(* State after construction: the object is zero-initialised, the           *)
(* properties family, port and ngpio are set, no reset has run yet.        *)
Constructed(f, p, n) ==
    /\ s = [moder |-> {}, otyper |-> {}, ospeedr |-> {}, pupdr |-> {},
            idr |-> {}, odr |-> {}, lckr |-> {}, aflr |-> {}, afhr |-> {},
            reset |-> FALSE, enable |-> FALSE, in |-> {}, in_mask |-> {},
            family |-> f, port |-> p, ngpio |-> n]
    /\ input_irq = [i \in 0..(STM32_GPIO_NPINS - 1) |-> 0]
    /\ call = [fn |-> "init", offset |-> 0, value |-> {}, line |-> 0,
               level |-> 0, ret |-> {}]
    /\ emit = NoEmit

Called(fn, offset, value, line, level, ret) ==
    call' = [fn |-> fn, offset |-> offset, value |-> value, line |-> line,
             level |-> level, ret |-> ret]

Apply(u) ==
    /\ s' = u.s
    /\ input_irq' = u.lines
    /\ emit' = u.emit

(* device reset (device_class_set_legacy_reset) *)
DeviceReset ==
    /\ Apply(stm32_gpio_reset(s, input_irq))
    /\ Called("reset", 0, {}, 0, 0, {})

(* mutant: the reset is run on the level of the line, not on its edge *)
stm32_gpio_irq_reset_OnLevel(value) ==
    LET st == [s EXCEPT !.reset = (value # 0)]
    IN  /\ IF st.reset
           THEN Apply(stm32_gpio_reset(st, input_irq))
           ELSE Apply(stm32_gpio_update_state(st, input_irq))
        /\ Called("irq_reset", 0, {}, 0, value, {})

(* the "reset-in" line *)
stm32_gpio_irq_reset(value) ==
    LET st == [s EXCEPT !.reset = (value # 0)]
    IN  /\ IF s.reset # st.reset
           THEN IF st.reset
                THEN Apply(stm32_gpio_reset(st, input_irq))
                ELSE Apply(stm32_gpio_update_state(st, input_irq))
           ELSE Apply([s |-> st, lines |-> input_irq, emit |-> NoEmit])
        /\ Called("irq_reset", 0, {}, 0, value, {})

(* the "enable-in" line *)
stm32_gpio_irq_enable(value) ==
    LET st == [s EXCEPT !.enable = (value # 0)]
    IN  /\ IF s.enable # st.enable
           THEN Apply(stm32_gpio_update_state(st, input_irq))
           ELSE Apply([s |-> st, lines |-> input_irq, emit |-> NoEmit])
        /\ Called("irq_enable", 0, {}, 0, value, {})

(* mutant: releasing a line clears its stored level as well *)
stm32_gpio_irq_set_ClearsLevel(line, value) ==
    /\ line >= 0 /\ line < s.ngpio
    /\ LET m  == [s EXCEPT !.in_mask =
                      deposit32(s.in_mask, line, 1, Bool(value >= 0))]
           st == [m EXCEPT !.in = deposit32(m.in, line, 1, Bool(value > 0))]
       IN  Apply(stm32_gpio_update_state(st, input_irq))
    /\ Called("irq_set", 0, {}, line, value, {})

(* the "input-in" lines; the handler asserts line >= 0 && line < s->ngpio *)
stm32_gpio_irq_set(line, value) ==
    /\ line >= 0 /\ line < s.ngpio
    /\ LET m  == [s EXCEPT !.in_mask =
                      deposit32(s.in_mask, line, 1, Bool(value >= 0))]
           st == IF value >= 0
                 THEN [m EXCEPT !.in = deposit32(m.in, line, 1, Bool(value # 0))]
                 ELSE m
       IN  Apply(stm32_gpio_update_state(st, input_irq))
    /\ Called("irq_set", 0, {}, line, value, {})

Read(offset) ==
    LET r == stm32_gpio_read(s, offset)
    IN  /\ Apply([s |-> s, lines |-> input_irq,
                  emit |-> [NoEmit EXCEPT !.log = r.log]])
        /\ Called("read", offset, {}, 0, 0, r.r)

Write(offset, value) ==
    /\ Apply(stm32_gpio_write(s, input_irq, offset, value))
    /\ Called("write", offset, value, 0, 0, {})

----------------------------------------------------------------------------------------------------------------------------------------
(* Spec: the pin-level behaviour.  The registers that feed the resolution  *)
(* are written (every mode and pull of pin 0, ODR through ODR, BSRR and    *)
(* BRR), as are the read-only IDR and an undefined offset; pin 0 is driven *)
(* low, high and released from outside.  The port is port A of a family    *)
(* with BRR and no reset override (F2) and of the family without BRR and   *)
(* with overrides (F4).  The values put on the input lines are             *)
(* -1..MaxLevel (input-in) and 0..MaxLevel (reset-in, enable-in).          *)

MaxLevel == 1

Families == {STM32_F2, STM32_F4}

UndefinedOffset == 44

Offsets == DefinedOffsets \cup {UndefinedOffset}

PinOffsets == {STM32_GPIO_REG_MODER, STM32_GPIO_REG_PUPDR, STM32_GPIO_REG_IDR,
               STM32_GPIO_REG_ODR, STM32_GPIO_REG_BSRR, STM32_GPIO_REG_BRR,
               UndefinedOffset}

AllOnes == Word(\hFFFF, \hFFFF)

PinValues(offset) ==
    CASE offset = STM32_GPIO_REG_MODER ->
             {Word(0, 0), Word(0, 1), Word(0, 2), Word(0, 3)}
      [] offset = STM32_GPIO_REG_PUPDR ->
             {Word(0, 0), Word(0, 1), Word(0, 2)}
      [] offset = STM32_GPIO_REG_ODR   -> {Word(0, 0), AllOnes}
      [] offset = STM32_GPIO_REG_BSRR  -> {Word(0, 1), Word(1, 0), Word(1, 1)}
      [] offset = STM32_GPIO_REG_BRR   -> {Word(1, 1)}
      [] OTHER                         -> {AllOnes}

Lines     == {0}
Levels    == -1..MaxLevel
IrqValues == 0..MaxLevel

Init == \E f \in Families : Constructed(f, STM32_GPIO_PORT_A, STM32_GPIO_NPINS)

Next ==
    \/ DeviceReset
    \/ \E value \in IrqValues : stm32_gpio_irq_reset(value)
    \/ \E value \in IrqValues : stm32_gpio_irq_enable(value)
    \/ \E line \in Lines, value \in Levels : stm32_gpio_irq_set(line, value)
    \/ \E offset \in PinOffsets : Read(offset)
    \/ \E offset \in PinOffsets : \E value \in PinValues(offset) : Write(offset, value)

Spec == Init /\ [][Next]_vars

----------------------------------------------------------------------------
(* SpecRegs: the register file.  Every offset is read and written (with    *)
(* all bits set), on a port without reset overrides that has BRR (F2,      *)
(* port A) and on the port with the most overrides, which has no BRR (F4,  *)
(* port B).  No pin is driven from outside: line 0 is only released.       *)

InitRegs ==
    \/ Constructed(STM32_F2, STM32_GPIO_PORT_A, STM32_GPIO_NPINS)
    \/ Constructed(STM32_F4, STM32_GPIO_PORT_B, STM32_GPIO_NPINS)

NextRegs ==
    \/ DeviceReset
    \/ \E value \in IrqValues : stm32_gpio_irq_reset(value)
    \/ \E value \in IrqValues : stm32_gpio_irq_enable(value)
    \/ \E line \in Lines : stm32_gpio_irq_set(line, -1)
    \/ \E offset \in Offsets : Read(offset)
    \/ \E offset \in Offsets : Write(offset, AllOnes)

SpecRegs == InitRegs /\ [][NextRegs]_vars

----------------------------------------------------------------------------
(* Vocabulary of the properties, stated on the bits of the registers *)

IsMode(st, i, mode) ==
    /\ ((2 * i) \in st.moder) <=> (mode % 2 = 1)
    /\ ((2 * i + 1) \in st.moder) <=> (mode \div 2 = 1)

IsPull(st, i, pull) ==
    /\ ((2 * i) \in st.pupdr) <=> (pull % 2 = 1)
    /\ ((2 * i + 1) \in st.pupdr) <=> (pull \div 2 = 1)

ExternalPresent(st, i) == i \in st.in_mask
ExternalLevel(st, i)   == i \in st.in

(* external drive > internal output drive > pull resistor > low *)
Resolution(st, i) ==
    IF ExternalPresent(st, i) THEN ExternalLevel(st, i)
    ELSE IF IsMode(st, i, STM32_GPIO_MODE_OUTPUT) THEN i \in st.odr
    ELSE IsPull(st, i, STM32_GPIO_PULL_UP)

(* the per-pin notifications and the number of pulses a handler emitted *)
Irqs(e)   == {<<e.out[k][2], e.out[k][3]>> : k \in {j \in DOMAIN e.out : e.out[j][1] = "set_irq"}}
Pulses(e) == Cardinality({k \in DOMAIN e.out : e.out[k] = Pulse})

ConfigRegs(st) ==
    <<st.moder, st.otyper, st.ospeedr, st.pupdr, st.odr, st.lckr, st.aflr, st.afhr>>

----------------------------------------------------------------------------
(* C1: in every reachable state, powered or not, held in reset or not,     *)
(* each IDR bit i < ngpio is the external level if pin i is driven from    *)
(* outside, else the ODR bit if the pin is an output, else high exactly    *)
(* when the pull is PullUp.                                                *)
C1_IdrIsResolution ==
    \A i \in 0..(s.ngpio - 1) : (i \in s.idr) <=> Resolution(s, i)

(* an undriven input pin with pull-up reads high while its ODR bit is      *)
(* low, the port being held in reset                                       *)
C1_Witness ==
    /\ s.reset
    /\ ~ExternalPresent(s, 0)
    /\ IsMode(s, 0, STM32_GPIO_MODE_INPUT)
    /\ IsPull(s, 0, STM32_GPIO_PULL_UP)
    /\ 0 \notin s.odr
    /\ 0 \in s.idr

----------------------------------------------------------------------------
(* C2: while held in reset no register write takes effect: after a write   *)
(* made while s.reset is set, the configuration registers still hold the   *)
(* family/port reset defaults.  (The code does not gate writes on reset.)  *)
C2_NoWriteTakesEffectInReset ==
    (s.reset /\ call.fn = "write") => ConfigRegs(s) = ConfigRegs(ResetRegs(s))

----------------------------------------------------------------------------
(* C3: while enable is clear every read returns 0 and every write leaves   *)
(* the registers, IDR, the external-drive bitmaps and the output lines     *)
(* unchanged and emits no notification; reads change nothing, and an edge  *)
(* of enable (the disable, the re-enable) leaves every register as it was  *)
(* and performs one resolve.  So after disable, reads and writes, enable,  *)
(* every register reads as before the disable.                             *)
C3_Step ==
    /\ (call'.fn = "read" /\ ~s.enable) => call'.ret = {}
    /\ (call'.fn = "read") => (s' = s /\ input_irq' = input_irq)
    /\ (call'.fn = "write" /\ ~s.enable) =>
           (s' = s /\ input_irq' = input_irq /\ emit'.out = <<>>)
    /\ (call'.fn = "irq_enable" /\ s'.enable # s.enable) =>
           /\ s' = [s EXCEPT !.enable = ~s.enable]
           /\ Pulses(emit') = 1
           /\ \A i \in Pins(s') : (i \in s'.idr) <=> Resolution(s', i)

C3_DisabledAccess == [][C3_Step]_vars

(* the port has just been re-enabled with registers written earlier still  *)
(* in place                                                                *)
C3_Witness ==
    /\ call.fn = "irq_enable" /\ s.enable /\ Pulses(emit) = 1
    /\ s.afhr = AllOnes /\ s.lckr = {} /\ s.odr = AllOnes

----------------------------------------------------------------------------
(* C4: the rising edge of reset-in sets the eight configuration registers  *)
(* to the family/port default table (zero but for the overrides) whatever  *)
(* they held, then resolves; the falling edge changes none of them and     *)
(* resolves.                                                               *)
DefaultTable(family, port) ==
    IF family = STM32_F4 /\ port = STM32_GPIO_PORT_A
    THEN <<Word(\hA800, \h0000), {}, {}, Word(\h6400, \h0000), {}, {}, {}, {}>>
    ELSE IF family = STM32_F4 /\ port = STM32_GPIO_PORT_B
    THEN <<Word(\h0000, \h0280), {}, Word(\h0000, \h00C0), Word(\h0000, \h0100),
           {}, {}, {}, {}>>
    ELSE <<{}, {}, {}, {}, {}, {}, {}, {}>>

C4_Step ==
    (call'.fn = "irq_reset" /\ s'.reset # s.reset) =>
        /\ s'.reset => ConfigRegs(s') = DefaultTable(s.family, s.port)
        /\ ~s'.reset => ConfigRegs(s') = ConfigRegs(s)
        /\ Pulses(emit') = 1
        /\ \A i \in Pins(s') : (i \in s'.idr) <=> Resolution(s', i)

C4_ResetEdges == [][C4_Step]_vars

(* reset has just been left on the port with the OSPEEDR override: the     *)
(* default forced on entry and a register written since are both in place  *)
C4_Witness ==
    /\ call.fn = "irq_reset" /\ ~s.reset /\ Pulses(emit) = 1
    /\ s.family = STM32_F4 /\ s.port = STM32_GPIO_PORT_B
    /\ s.ospeedr = Word(\h0000, \h00C0) /\ s.lckr = AllOnes

----------------------------------------------------------------------------
(* C5: in each resolve, input-out line i is set exactly when the new level *)
(* of pin i differs from its previous IDR bit and the pin is in Input mode *)
(* at that moment, and it is set to the new level; a pin in another mode   *)
(* is never notified, even when its level changes.  A handler that does    *)
(* not resolve sets no line.                                               *)
C5_Step ==
    /\ Pulses(emit') = 0 => Irqs(emit') = {}
    /\ Pulses(emit') = 1 =>
         \A i \in Pins(s'), level \in {0, 1} :
            (<<i, level>> \in Irqs(emit')) <=>
                /\ (i \in s'.idr) # (i \in s.idr)
                /\ IsMode(s', i, STM32_GPIO_MODE_INPUT)
                /\ level = Bool(i \in s'.idr)
    /\ \A i \in DOMAIN input_irq :
         input_irq'[i] = IF \E level \in {0, 1} : <<i, level>> \in Irqs(emit')
                         THEN Bool(i \in s'.idr) ELSE input_irq[i]

C5_PerPinNotification == [][C5_Step]_vars

(* the external drive of an output pin has just been removed: the pin is   *)
(* low now, and its line still shows the high level notified while it was  *)
(* an input                                                                *)
C5_Witness ==
    /\ call.fn = "irq_set" /\ call.level = -1
    /\ IsMode(s, 0, STM32_GPIO_MODE_OUTPUT)
    /\ 0 \notin s.idr /\ input_irq[0] = 1
    /\ Irqs(emit) = {} /\ Pulses(emit) = 1

----------------------------------------------------------------------------
(* C6: every resolve pulses state-out exactly once, after the lines of all *)
(* pins have been set and even when no level changed: a write made while   *)
(* enabled (to IDR, to BRR on F4 and to an undefined offset too), a change *)
(* of external drive and a device reset each pulse once, and the pulse is  *)
(* the last call made; a write made while disabled does not pulse.         *)
C6_OnePulsePerResolve ==
    /\ Pulses(emit) \in {0, 1}
    /\ Pulses(emit) = 1 => emit.out[Len(emit.out)] = Pulse
    /\ Pulses(emit) = 0 => emit.out = <<>>
    /\ call.fn = "write" => Pulses(emit) = (IF s.enable THEN 1 ELSE 0)
    /\ call.fn \in {"irq_set", "reset"} => Pulses(emit) = 1

(* a write to BRR on the family without it, with no level changed *)
C6_Witness ==
    /\ call.fn = "write" /\ call.offset = STM32_GPIO_REG_BRR
    /\ s.family = STM32_F4 /\ s.enable
    /\ emit.out = <<Pulse>>

----------------------------------------------------------------------------
(* C7: external drive overrides the internal output.  In every resolve the *)
(* short-circuit diagnostic is reported for pin i exactly when the pin is  *)
(* in Output mode and driven from outside; such a pin takes the external   *)
(* level whatever its ODR bit; the resolve that reports it changes no      *)
(* register beyond what the handler wrote and still resolves every pin.  A *)
(* handler that does not resolve reports no short circuit.                 *)
Hazard(st, i) ==
    IsMode(st, i, STM32_GPIO_MODE_OUTPUT) /\ ExternalPresent(st, i)

C7_Step ==
    /\ Pulses(emit') = 0 => \A i \in Pins(s') : LogShort(i) \notin emit'.log
    /\ Pulses(emit') = 1 =>
         /\ \A i \in Pins(s') : (LogShort(i) \in emit'.log) <=> Hazard(s', i)
         /\ \A i \in Pins(s') :
              Hazard(s', i) => ((i \in s'.idr) <=> ExternalLevel(s', i))
         /\ \A i \in Pins(s') : (i \in s'.idr) <=> Resolution(s', i)
    /\ call'.fn \in {"irq_set", "irq_enable"} => ConfigRegs(s') = ConfigRegs(s)
    /\ (call'.fn = "write" /\ call'.offset \in {STM32_GPIO_REG_IDR, UndefinedOffset})
         => ConfigRegs(s') = ConfigRegs(s)

C7_ExternalDriveOverrides == [][C7_Step]_vars

(* a write has resolved an output pin held high from outside while its ODR *)
(* bit is low                                                              *)
C7_Witness ==
    /\ call.fn = "write" /\ LogShort(0) \in emit.log
    /\ IsMode(s, 0, STM32_GPIO_MODE_OUTPUT)
    /\ 0 \in s.idr /\ 0 \notin s.odr

----------------------------------------------------------------------------
(* C8: a BSRR write made while enabled leaves ODR bit k set if value bit k *)
(* (k < 16) is set, clear if value bit k is clear and value bit k + 16 is  *)
(* set, and unchanged otherwise; a pin named in both halves ends set.      *)
C8_Step ==
    (call'.fn = "write" /\ call'.offset = STM32_GPIO_REG_BSRR /\ s.enable) =>
        \A k \in Bits32 :
            (k \in s'.odr) <=>
                IF k < 16 /\ k \in call'.value THEN TRUE
                ELSE IF k < 16 /\ (k + 16) \in call'.value THEN FALSE
                ELSE k \in s.odr

C8_BsrrSetWins == [][C8_Step]_vars

(* pin 0 was named in both halves and is the only ODR bit set *)
C8_Witness ==
    /\ call.fn = "write" /\ call.offset = STM32_GPIO_REG_BSRR
    /\ call.value = Word(1, 1) /\ s.enable
    /\ s.odr = {0}

----------------------------------------------------------------------------
(* C9: a BRR write made while enabled on a family with BRR clears, among   *)
(* ODR bits 0..15, exactly those set in the value and leaves ODR bits      *)
(* 16..31 and every other writable register as they were (IDR follows the  *)
(* new ODR through the resolve); on STM32_F4 the write changes no register *)
(* and is reported as a bad write offset; a BRR read while enabled returns *)
(* 0 on every family.                                                      *)
C9_Step ==
    /\ (call'.fn = "write" /\ call'.offset = STM32_GPIO_REG_BRR /\ s.enable) =>
         IF s.family # STM32_F4
         THEN /\ \A k \in Bits32 :
                    (k \in s'.odr) <=> (k \in s.odr /\ ~(k < 16 /\ k \in call'.value))
              /\ [s' EXCEPT !.odr = {}, !.idr = {}] = [s EXCEPT !.odr = {}, !.idr = {}]
              /\ \A i \in Pins(s') : (i \in s'.idr) <=> Resolution(s', i)
              /\ LogBadWrite(STM32_GPIO_REG_BRR) \notin emit'.log
         ELSE /\ s' = s
              /\ LogBadWrite(STM32_GPIO_REG_BRR) \in emit'.log
    /\ (call'.fn = "read" /\ call'.offset = STM32_GPIO_REG_BRR) =>
         /\ call'.ret = {}
         /\ s' = s

C9_BrrByFamily == [][C9_Step]_vars

(* on the family with BRR, pin 0 has been cleared in an ODR that was all   *)
(* ones, the written value having bit 16 set as well                       *)
C9_Witness ==
    /\ call.fn = "write" /\ call.offset = STM32_GPIO_REG_BRR
    /\ call.value = Word(1, 1)
    /\ s.family = STM32_F2 /\ s.enable
    /\ s.odr = AllOnes \ {0}

----------------------------------------------------------------------------
(* C10: a write to IDR changes nothing of the state (no register, not IDR, *)
(* not the external levels and mask, not the levels of the input-out       *)
(* lines), whatever the value; a read of IDR made while enabled returns    *)
(* the levels of the last resolve, and one made while disabled returns 0.  *)
C10_IdrWriteStep ==
    (call'.fn = "write" /\ call'.offset = STM32_GPIO_REG_IDR) =>
        s' = s /\ input_irq' = input_irq

C10_Step ==
    /\ C10_IdrWriteStep
    /\ (call'.fn = "read" /\ call'.offset = STM32_GPIO_REG_IDR) =>
         call'.ret = IF s.enable THEN {i \in Pins(s) : Resolution(s, i)} ELSE {}

C10_IdrReadOnly == [][C10_Step]_vars

(* as stated: a read of IDR always returns the levels of the last resolve  *)
C10_OriginalStep ==
    /\ C10_IdrWriteStep
    /\ (call'.fn = "read" /\ call'.offset = STM32_GPIO_REG_IDR) =>
         call'.ret = {i \in Pins(s) : Resolution(s, i)}

C10_ReadAlwaysLastResolve == [][C10_OriginalStep]_vars

(* all ones has just been written to IDR while some pins are high and some *)
(* are low                                                                 *)
C10_Witness ==
    /\ call.fn = "write" /\ call.offset = STM32_GPIO_REG_IDR
    /\ call.value = AllOnes /\ s.enable
    /\ s.idr # {} /\ s.idr # AllOnes

----------------------------------------------------------------------------
(* C11: after a write to ODR, BSRR or BRR made while enabled, every pin in *)
(* Output mode and not driven from outside whose ODR bit the write changed *)
(* has its IDR bit equal to the new ODR bit, and no pin has changed level  *)
(* but those whose ODR bit changed.                                        *)
OdrOffsets == {STM32_GPIO_REG_ODR, STM32_GPIO_REG_BSRR, STM32_GPIO_REG_BRR}

OdrChanged(i) == (i \in s'.odr) # (i \in s.odr)

C11_Step ==
    (call'.fn = "write" /\ call'.offset \in OdrOffsets /\ s.enable) =>
        /\ \A i \in Pins(s') :
             (/\ IsMode(s', i, STM32_GPIO_MODE_OUTPUT)
              /\ ~ExternalPresent(s', i)
              /\ OdrChanged(i))
                => ((i \in s'.idr) <=> (i \in s'.odr))
        /\ \A i \in Bits32 :
             ((i \in s'.idr) # (i \in s.idr)) => OdrChanged(i)

C11_OutputFollowsOdr == [][C11_Step]_vars

(* BSRR has just cleared bit 0 of an ODR that was all ones: output pin 0   *)
(* went low, the other pins, whose ODR bits are still set, are not outputs *)
(* and stay low                                                            *)
C11_Witness ==
    /\ call.fn = "write" /\ call.offset = STM32_GPIO_REG_BSRR
    /\ call.value = Word(1, 0) /\ s.enable
    /\ IsMode(s, 0, STM32_GPIO_MODE_OUTPUT) /\ ~ExternalPresent(s, 0)
    /\ s.odr = AllOnes \ {0} /\ s.idr = {}

----------------------------------------------------------------------------
(* Re-entrancy.  qemu_set_irq(s->input_irq[i], new_id) is a direct call of *)
(* whatever handler is connected to line i; that handler may call back     *)
(* into the port (stm32_gpio_irq_set, stm32_gpio_write) before returning.  *)
(* Here the loop of stm32_gpio_update_state is followed iteration by       *)
(* iteration, each reading its inputs from s as the code does, and the     *)
(* handler connected to line i is sink[i]: it does nothing, or makes one   *)
(* call into the port, which runs to completion (nested update_state       *)
(* included) before qemu_set_irq returns.  A handler re-enters to a depth  *)
(* of at most MaxDepth.                                                    *)

MaxDepth == 2

SinkNone                  == [op |-> "none", arg |-> 0, value |-> {}, level |-> 0]
SinkIrqSet(line, level)   == [op |-> "irq_set", arg |-> line, value |-> {}, level |-> level]
SinkWrite(offset, value)  == [op |-> "write", arg |-> offset, value |-> value, level |-> 0]

(* lines 137-148 of stm32_gpio_irq_set: in_mask and in of one line *)
SetDrive(st, line, value) ==
    LET m == [st EXCEPT !.in_mask = deposit32(st.in_mask, line, 1, Bool(value >= 0))]
    IN  IF value >= 0
        THEN [m EXCEPT !.in = deposit32(m.in, line, 1, Bool(value # 0))]
        ELSE m

(* mutant: the loop keeps IDR in a local copy, which it stores back after  *)
(* qemu_set_irq returns                                                    *)
AfterSink_CachedIdr(before, after) == [after EXCEPT !.s.idr = before.s.idr]

(* line 28-35: the next iteration extracts from s again; nothing read      *)
(* before qemu_set_irq is used after it                                    *)
AfterSink(before, after) == after

RECURSIVE Loop(_, _, _, _)

(* the call the handler connected to a line makes, at nesting depth + 1 *)
SinkCall(u, depth, sink, i) ==
    LET c == sink[i]
    IN  IF depth >= MaxDepth \/ c.op = "none" THEN u
        ELSE IF c.op = "irq_set"
        THEN Loop([u EXCEPT !.s = SetDrive(u.s, c.arg, c.level)], 0, depth + 1, sink)
        ELSE IF ~WriteAccepted(u.s)
        THEN [u EXCEPT !.emit.log = @ \cup {LogDisabled}]
        ELSE Loop([u EXCEPT !.s = WriteRegs(u.s, c.arg, c.value),
                            !.emit.log = @ \cup (IF BadOffset(u.s, c.arg)
                                                 THEN {LogBadWrite(c.arg)} ELSE {})],
                  0, depth + 1, sink)

(* lines 28-64: the iterations from pin i on, then the pulse *)
Loop(u, i, depth, sink) ==
    IF i >= u.s.ngpio
    THEN [u EXCEPT !.emit.out = @ \o <<Pulse>>]
    ELSE LET st      == u.s
             prev_id == extract32(st.idr, i, 1)
             new_id  == NewId(st, i)
             u1      == [u EXCEPT !.s.idr = deposit32(st.idr, i, 1, new_id),
                                  !.emit.log = @ \cup (IF ShortCircuited(st, i)
                                                       THEN {LogShort(i)} ELSE {})]
             u2      == [u1 EXCEPT !.lines[i] = new_id,
                                   !.emit.out = Append(@, SetIrq(i, new_id))]
         IN  IF RaisesIrq(Mode(st, i), new_id, prev_id)
             THEN Loop(AfterSink(u2, SinkCall(u2, depth, sink, i)), i + 1, depth, sink)
             ELSE Loop(u1, i + 1, depth, sink)

(* stm32_gpio_irq_set with the handlers of the lines given by sink *)
ReentrantIrqSet(line, value, sink) ==
    /\ line >= 0 /\ line < s.ngpio
    /\ Apply(Loop([s |-> SetDrive(s, line, value), lines |-> input_irq, emit |-> NoEmit],
                  0, 0, sink))
    /\ Called("irq_set", 0, {}, line, value, {})

(* stm32_gpio_write with the handlers of the lines given by sink *)
ReentrantWrite(offset, value, sink) ==
    /\ IF ~WriteAccepted(s)
       THEN Apply([s |-> s, lines |-> input_irq,
                   emit |-> [NoEmit EXCEPT !.log = {LogDisabled}]])
       ELSE Apply(Loop([s |-> WriteRegs(s, offset, value), lines |-> input_irq,
                        emit |-> [NoEmit EXCEPT !.log =
                                     IF BadOffset(s, offset)
                                     THEN {LogBadWrite(offset)} ELSE {}]],
                       0, 0, sink))
    /\ Called("write", offset, value, 0, 0, {})

(* SpecReentrant: an F2 port A of SmallPort pins (property ngpio), pins 0   *)
(* and 1 with a handler on their line; modes Input and Output, pull none   *)
(* and pull-up, both lines driven and released, from outside the port and  *)
(* from the handlers.                                                      *)
SmallPort == 4

ReentrantLines == {0, 1}

ReentrantLevels == {-1, 0, 1}

ReentrantWrites ==
    {<<STM32_GPIO_REG_MODER, Word(0, 0)>>, <<STM32_GPIO_REG_MODER, Word(0, 1)>>,
     <<STM32_GPIO_REG_PUPDR, Word(0, 0)>>, <<STM32_GPIO_REG_PUPDR, Word(0, 5)>>,
     <<STM32_GPIO_REG_ODR, Word(0, 0)>>,   <<STM32_GPIO_REG_ODR, Word(0, 3)>>}

SinkChoices ==
    {SinkNone, SinkIrqSet(0, 1), SinkIrqSet(1, -1),
     SinkWrite(STM32_GPIO_REG_PUPDR, Word(0, 0))}

Sinks == [ReentrantLines -> SinkChoices]

InitReentrant == Constructed(STM32_F2, STM32_GPIO_PORT_A, SmallPort)

NextReentrant ==
    \/ \E value \in {0, 1} : stm32_gpio_irq_enable(value)
    \/ \E line \in ReentrantLines, value \in ReentrantLevels, sink \in Sinks :
          ReentrantIrqSet(line, value, sink)
    \/ \E w \in ReentrantWrites, sink \in Sinks : ReentrantWrite(w[1], w[2], sink)

SpecReentrant == InitReentrant /\ [][NextReentrant]_vars

(* C12: when a handler connected to an input-out line calls back into the  *)
(* port during update_state (stm32_gpio_irq_set or stm32_gpio_write), then *)
(* once the outermost handler has returned every IDR bit is the resolution *)
(* of the final registers and external drives: no pin keeps a level        *)
(* computed from values read before the nested call.                       *)
C12_ReentrantResolved ==
    Pulses(emit) >= 1 => \A i \in Pins(s) : (i \in s.idr) <=> Resolution(s, i)

(* line 1 was driven high from outside; the handler of line 1, notified of *)
(* the high level, released the line before returning: nested resolves    *)
(* ran and pin 1 is low although the outermost call drove it high          *)
C12_Witness ==
    /\ call.fn = "irq_set" /\ call.line = 1 /\ call.level = 1
    /\ Pulses(emit) >= 2
    /\ 1 \notin s.idr /\ ~ExternalPresent(s, 1)
    /\ emit.out[1] = SetIrq(1, 1)

----------------------------------------------------------------------------
(* C13: enable-in and reset-in act on a change of their flag only.  A      *)
(* level that leaves the flag as it is (any non-zero level counts as set)  *)
(* changes nothing of the state, forces no register default, does not      *)
(* resolve and makes no call on an output line; a level that changes the   *)
(* flag resolves exactly once.                                             *)
C13_Step ==
    /\ (call'.fn = "irq_enable" /\ (call'.level # 0) = s.enable) =>
         s' = s /\ input_irq' = input_irq /\ emit' = NoEmit
    /\ (call'.fn = "irq_reset" /\ (call'.level # 0) = s.reset) =>
         s' = s /\ input_irq' = input_irq /\ emit' = NoEmit
    /\ (call'.fn = "irq_enable" /\ (call'.level # 0) # s.enable) =>
         Pulses(emit') = 1 /\ s'.enable = ~s.enable
    /\ (call'.fn = "irq_reset" /\ (call'.level # 0) # s.reset) =>
         Pulses(emit') = 1 /\ s'.reset = ~s.reset

C13_EdgeTriggered == [][C13_Step]_vars

(* reset-in was set again while already set: pin 0, made an output high    *)
(* since the reset was entered, is left as it is                           *)
C13_Witness ==
    /\ call.fn = "irq_reset" /\ call.level # 0 /\ s.reset
    /\ emit = NoEmit
    /\ IsMode(s, 0, STM32_GPIO_MODE_OUTPUT) /\ 0 \in s.odr /\ 0 \in s.idr

----------------------------------------------------------------------------
(* C14: update_state is idempotent.  A handler that resolves without       *)
(* having changed a register or the external drive of a pin since the      *)
(* previous resolve leaves IDR as it was and sets no input-out line: its   *)
(* only call is the pulse on state-out.                                    *)
DriveAndRegs(st) == <<ConfigRegs(st), st.in, st.in_mask>>

C14_Step ==
    (Pulses(emit') >= 1 /\ DriveAndRegs(s') = DriveAndRegs(s)) =>
        /\ s'.idr = s.idr
        /\ input_irq' = input_irq
        /\ emit'.out = <<Pulse>>

C14_ResolveIdempotent == [][C14_Step]_vars

(* a write to the read-only IDR has resolved again while input pin 0 is    *)
(* held high from outside: the line of pin 0 is not set again              *)
C14_Witness ==
    /\ call.fn = "write" /\ call.offset = STM32_GPIO_REG_IDR /\ s.enable
    /\ IsMode(s, 0, STM32_GPIO_MODE_INPUT)
    /\ ExternalPresent(s, 0) /\ 0 \in s.idr /\ input_irq[0] = 1
    /\ emit.out = <<Pulse>>

----------------------------------------------------------------------------
(* SpecDefaults: the reset defaults of every family and port combination.  *)
(* The port is A, B or C of either family; the registers the overrides     *)
(* touch, and ODR, are written with all ones before the reset is entered   *)
(* through reset-in or through the device reset.                           *)
DefaultsPorts == {STM32_GPIO_PORT_A, STM32_GPIO_PORT_B, STM32_GPIO_PORT_C}

DefaultsOffsets == {STM32_GPIO_REG_MODER, STM32_GPIO_REG_OSPEEDR,
                    STM32_GPIO_REG_PUPDR, STM32_GPIO_REG_ODR}

InitDefaults ==
    \E f \in Families, p \in DefaultsPorts : Constructed(f, p, STM32_GPIO_NPINS)

NextDefaults ==
    \/ DeviceReset
    \/ \E value \in IrqValues : stm32_gpio_irq_reset(value)
    \/ \E value \in IrqValues : stm32_gpio_irq_enable(value)
    \/ \E offset \in DefaultsOffsets : Write(offset, AllOnes)

SpecDefaults == InitDefaults /\ [][NextDefaults]_vars

(* the reset has just run: device reset, or reset-in going from 0 to set *)
ResetRan == call'.fn = "reset" \/ (call'.fn = "irq_reset" /\ ~s.reset /\ s'.reset)

(* every pin has the given mode, but those of the table, which have theirs *)
ModesAre(st, table, rest) ==
    \A i \in 0..(STM32_GPIO_NPINS - 1) :
        IsMode(st, i, IF i \in DOMAIN table THEN table[i] ELSE rest)

PullsAre(st, table, rest) ==
    \A i \in 0..(STM32_GPIO_NPINS - 1) :
        IsPull(st, i, IF i \in DOMAIN table THEN table[i] ELSE rest)

NoPins == [i \in {} |-> 0]

OthersZero(st) ==
    st.otyper = {} /\ st.odr = {} /\ st.lckr = {} /\ st.aflr = {} /\ st.afhr = {}

(* C15: after a reset on STM32_F4, port A has pins 13-15 in alternate      *)
(* function mode (field value 2), pin 13 and 15 pulled up and pin 14       *)
(* pulled down, every other pin an input without pull; port B has pins 3   *)
(* and 4 in alternate function mode, pin 4 pulled up and OSPEEDR = 0xC0;   *)
(* all other registers are zero, and every other family and port has all   *)
(* registers zero.                                                         *)
C15_Step ==
    ResetRan =>
        /\ OthersZero(s')
        /\ IF s.family = STM32_F4 /\ s.port = STM32_GPIO_PORT_A
           THEN /\ ModesAre(s', [i \in 13..15 |-> STM32_GPIO_MODE_AF], STM32_GPIO_MODE_INPUT)
                /\ PullsAre(s', [i \in 13..15 |-> IF i = 14 THEN STM32_GPIO_PULL_DOWN
                                                  ELSE STM32_GPIO_PULL_UP],
                            STM32_GPIO_PULL_NONE)
                /\ s'.ospeedr = {}
           ELSE IF s.family = STM32_F4 /\ s.port = STM32_GPIO_PORT_B
           THEN /\ ModesAre(s', [i \in 3..4 |-> STM32_GPIO_MODE_AF], STM32_GPIO_MODE_INPUT)
                /\ PullsAre(s', [i \in {4} |-> STM32_GPIO_PULL_UP], STM32_GPIO_PULL_NONE)
                /\ s'.ospeedr = {6, 7}
           ELSE /\ ModesAre(s', NoPins, STM32_GPIO_MODE_INPUT)
                /\ PullsAre(s', NoPins, STM32_GPIO_PULL_NONE)
                /\ s'.ospeedr = {}

C15_ResetDefaults == [][C15_Step]_vars

(* as stated: port A of STM32_F4 has pins 13-15 in analog mode after reset *)
C15_OriginalStep ==
    ResetRan =>
        IF s.family = STM32_F4 /\ s.port = STM32_GPIO_PORT_A
        THEN \A i \in 13..15 : IsMode(s', i, STM32_GPIO_MODE_ANALOG)
        ELSE IF s.family = STM32_F4 /\ s.port = STM32_GPIO_PORT_B
        THEN s'.moder # {} /\ s'.pupdr # {}
        ELSE ConfigRegs(s') = <<{}, {}, {}, {}, {}, {}, {}, {}>>

C15_PortAAnalog == [][C15_OriginalStep]_vars

(* reset-in has just been set on the enabled port A of STM32_F4: pin 13 is  *)
(* in alternate function mode and reads high through its pull-up, pin 14   *)
(* reads low                                                               *)
C15_Witness ==
    /\ call.fn = "irq_reset" /\ s.reset /\ Pulses(emit) = 1
    /\ s.family = STM32_F4 /\ s.port = STM32_GPIO_PORT_A
    /\ IsMode(s, 13, STM32_GPIO_MODE_AF) /\ IsPull(s, 13, STM32_GPIO_PULL_UP)
    /\ 13 \in s.idr /\ 14 \notin s.idr
    /\ s.enable

----------------------------------------------------------------------------
(* SpecDrive: two pins driven from outside.  Lines 0 and 1 of an F2 port A *)
(* are driven low, high and released (levels -1..MaxLevel) while pin 0 and *)
(* pin 1 are switched between Input and Output, pulled up or not, with     *)
(* their ODR bits set or clear, the port enabled or not.                   *)
DriveLines == {0, 1}

DriveWrites ==
    {<<STM32_GPIO_REG_MODER, Word(0, 0)>>, <<STM32_GPIO_REG_MODER, Word(0, 1)>>,
     <<STM32_GPIO_REG_MODER, Word(0, 4)>>,
     <<STM32_GPIO_REG_PUPDR, Word(0, 0)>>, <<STM32_GPIO_REG_PUPDR, Word(0, 5)>>,
     <<STM32_GPIO_REG_ODR, Word(0, 0)>>,   <<STM32_GPIO_REG_ODR, Word(0, 3)>>}

InitDrive == Constructed(STM32_F2, STM32_GPIO_PORT_A, STM32_GPIO_NPINS)

NextDrive ==
    \/ \E value \in IrqValues : stm32_gpio_irq_enable(value)
    \/ \E line \in DriveLines, value \in Levels : stm32_gpio_irq_set(line, value)
    \/ \E w \in DriveWrites : Write(w[1], w[2])

SpecDrive == InitDrive /\ [][NextDrive]_vars

(* C16: a level put on input-in line l < ngpio changes bit l of in_mask    *)
(* and of in and nothing else of the state but IDR bit l: no register, no  *)
(* flag, no property, no bit of in_mask, in or IDR of another pin.  A      *)
(* negative level clears bit l of in_mask and keeps bit l of in; any other *)
(* level sets bit l of in_mask and makes bit l of in (level # 0).          *)
C16_Step ==
    call'.fn = "irq_set" =>
        LET l == call'.line
            v == call'.level
        IN  /\ ConfigRegs(s') = ConfigRegs(s)
            /\ <<s'.reset, s'.enable>> = <<s.reset, s.enable>>
            /\ <<s'.family, s'.port, s'.ngpio>> = <<s.family, s.port, s.ngpio>>
            /\ s'.in_mask \ {l} = s.in_mask \ {l}
            /\ s'.in \ {l} = s.in \ {l}
            /\ s'.idr \ {l} = s.idr \ {l}
            /\ (l \in s'.in_mask) <=> (v >= 0)
            /\ (l \in s'.in) <=> (IF v >= 0 THEN v # 0 ELSE l \in s.in)

C16_DriveFrame == [][C16_Step]_vars

(* line 0 has just been released after having been held high: its stored  *)
(* level is kept, pin 0 is low again, and pin 1, still held high, is as it *)
(* was                                                                     *)
C16_Witness ==
    /\ call.fn = "irq_set" /\ call.line = 0 /\ call.level = -1
    /\ ~ExternalPresent(s, 0) /\ ExternalLevel(s, 0) /\ 0 \notin s.idr
    /\ ExternalPresent(s, 1) /\ ExternalLevel(s, 1) /\ 1 \in s.idr

----------------------------------------------------------------------------
(* C17: a reset (the device reset, or reset-in going from 0 to set) leaves *)
(* enable, in and in_mask as they are, forces the register defaults        *)
(* whether the port is enabled or not, and does not clear IDR: IDR is      *)
(* resolved from the defaults and the external drives, so a pin held high  *)
(* from outside reads high after the reset.                                *)
C17_Step ==
    ResetRan =>
        /\ <<s'.enable, s'.in, s'.in_mask>> = <<s.enable, s.in, s.in_mask>>
        /\ ConfigRegs(s') = DefaultTable(s.family, s.port)
        /\ \A i \in Pins(s') : (i \in s'.idr) <=> Resolution(s', i)
        /\ \A i \in Pins(s) :
             (ExternalPresent(s, i) /\ ExternalLevel(s, i)) => i \in s'.idr

C17_ResetFrame == [][C17_Step]_vars

(* the device reset has just run on a disabled F4 port A with pin 0 held   *)
(* high from outside: the defaults are in place (pin 13 reads high through *)
(* its pull-up) and pin 0 still reads high                                 *)
C17_Witness ==
    /\ call.fn = "reset" /\ ~s.enable
    /\ s.family = STM32_F4 /\ ConfigRegs(s) = DefaultTable(s.family, s.port)
    /\ ExternalPresent(s, 0) /\ ExternalLevel(s, 0)
    /\ 0 \in s.idr /\ 13 \in s.idr

----------------------------------------------------------------------------
(* C18: in every reachable state, for every pin in Input mode, the level   *)
(* last set on the pin's input-out line (low if it was never set) is the   *)
(* pin's IDR bit, also when the pin changed level while in another mode    *)
(* and was then made an input again.                                       *)
C18_LineTracksInputPin ==
    \A i \in Pins(s) :
        IsMode(s, i, STM32_GPIO_MODE_INPUT) => input_irq[i] = Bool(i \in s.idr)

----------------------------------------------------------------------------
(* SpecSmall: a port with fewer pins than STM32_GPIO_NPINS (property       *)
(* ngpio = SmallPort), port A of either family, so that the STM32_F4       *)
(* defaults pull up pins the port does not have.  MODER, PUPDR and ODR are *)
(* written with every pin position an output, pulled up and set; IDR is    *)
(* written too, line 0 is driven, and the port is reset.                   *)
AllOutputs == Word(\h5555, \h5555)
AllPullUps == Word(\h5555, \h5555)

SmallWrites ==
    {<<STM32_GPIO_REG_MODER, Word(0, 0)>>, <<STM32_GPIO_REG_MODER, AllOutputs>>,
     <<STM32_GPIO_REG_PUPDR, Word(0, 0)>>, <<STM32_GPIO_REG_PUPDR, AllPullUps>>,
     <<STM32_GPIO_REG_ODR, Word(0, 0)>>,   <<STM32_GPIO_REG_ODR, AllOnes>>,
     <<STM32_GPIO_REG_IDR, AllOnes>>}

InitSmall == \E f \in Families : Constructed(f, STM32_GPIO_PORT_A, SmallPort)

NextSmall ==
    \/ DeviceReset
    \/ \E value \in IrqValues : stm32_gpio_irq_reset(value)
    \/ \E value \in IrqValues : stm32_gpio_irq_enable(value)
    \/ \E line \in Lines, value \in Levels : stm32_gpio_irq_set(line, value)
    \/ Read(STM32_GPIO_REG_IDR)
    \/ \E w \in SmallWrites : Write(w[1], w[2])

SpecSmall == InitSmall /\ [][NextSmall]_vars

(* C19: in every reachable state the IDR bits at positions ngpio..31 are   *)
(* zero, whatever MODER, PUPDR and ODR hold at those positions, by a write *)
(* or by the reset defaults.                                               *)
C19_IdrAbovePinsZero ==
    /\ \A k \in Bits32 : k >= s.ngpio => k \notin s.idr
    /\ (call.fn = "read" /\ call.offset = STM32_GPIO_REG_IDR) =>
         \A k \in Bits32 : k >= s.ngpio => k \notin call.ret

(* every pin position is an output with its ODR bit set: the pins the port *)
(* has read high, the positions above them read zero                       *)
C19_Witness ==
    /\ s.ngpio < STM32_GPIO_NPINS /\ s.enable
    /\ s.moder = AllOutputs /\ s.odr = AllOnes
    /\ s.idr = 0..(s.ngpio - 1)
    /\ call.fn = "read" /\ call.ret = s.idr

====
